---- MODULE Spec2Model ----
(***************************************************************************)
(* Job lifecycle of the financial document analyzer: POST /analyze         *)
(* (main.py submit_analysis), the Celery task analyze_document_task        *)
(* (celery_app.py), the CRUD layer (crud.py), the two query endpoints      *)
(* (main.py check_status, get_analysis_result) and delete_old_analyses.    *)
(***************************************************************************)
EXTENDS Integers, Sequences, FiniteSets, TLC

(***************************************************************************)
(* Bounds of the model.                                                    *)
(***************************************************************************)
MaxJobs == 1
MaxTime == 1
NumWorkers == 1
NumCallers == 2

TaskIds == 1 .. (MaxJobs + 1)
Workers == 1 .. NumWorkers
Times == 0 .. MaxTime
Callers == 1 .. NumCallers

(***************************************************************************)
(* Python values.  Every value is a record of one shape, so that any two   *)
(* of them can be compared: t is the Python type, s the scalar payload,    *)
(* items the elements of a list or the key/value pairs of a dict.          *)
(***************************************************************************)
None == [t |-> "None", s |-> "", items |-> <<>>]
Str(s) == [t |-> "str", s |-> s, items |-> <<>>]
Num(s) == [t |-> "int", s |-> s, items |-> <<>>]
Bool(s) == [t |-> "bool", s |-> s, items |-> <<>>]
List(vs) == [t |-> "list", s |-> "", items |-> vs]
Pair(k, v) == [t |-> "pair", s |-> k, items |-> <<v>>]
Dict(ps) == [t |-> "dict", s |-> "", items |-> ps]

\* Python truthiness, as used by "if error_message:" and "if not query".
Truthy(v) ==
    CASE v.t = "None" -> FALSE
      [] v.t = "str" -> v.s # ""
      [] v.t = "int" -> v.s # "0"
      [] v.t = "bool" -> v.s = "true"
      [] v.t \in {"list", "dict"} -> v.items # <<>>
      [] OTHER -> TRUE

(***************************************************************************)
(* JSON text.  A Python str that is handed to json.loads is a sequence of  *)
(* lexical tokens: punctuation p, string literal s, number n, the literals *)
(* null/true/false l, and w for a run of text that is no JSON token.       *)
(***************************************************************************)
P(c) == [k |-> "p", v |-> c]
S(s) == [k |-> "s", v |-> s]
N(n) == [k |-> "n", v |-> n]
L(w) == [k |-> "l", v |-> w]
W(w) == [k |-> "w", v |-> w]

Quote == "'"
TokText(tk) == IF tk.k = "s" THEN Quote \o tk.v \o Quote ELSE tk.v

\* The characters of a tokenised str, as one string (str(x) of a str is x).
RECURSIVE Text(_)
Text(toks) ==
    IF toks = <<>> THEN "" ELSE TokText(Head(toks)) \o Text(Tail(toks))

\* dict[k] = v: a repeated key keeps its place and takes the last value.
RECURSIVE DictSet(_, _, _)
DictSet(ps, k, v) ==
    IF ps = <<>> THEN <<Pair(k, v)>>
    ELSE IF Head(ps).s = k THEN <<Pair(k, v)>> \o Tail(ps)
    ELSE <<Head(ps)>> \o DictSet(Tail(ps), k, v)

ParseFail == [ok |-> FALSE, val |-> None, nxt |-> 0]
ParseOk(v, n) == [ok |-> TRUE, val |-> v, nxt |-> n]
TokAt(toks, i) == IF i <= Len(toks) THEN toks[i] ELSE W("")

RECURSIVE ParseValue(_, _)
RECURSIVE ParseElems(_, _, _)
RECURSIVE ParseMembers(_, _, _)

ParseValue(toks, i) ==
    LET tk == TokAt(toks, i) IN
    IF i > Len(toks) THEN ParseFail
    ELSE CASE tk.k = "l" ->
                ParseOk(IF tk.v = "null" THEN None ELSE Bool(tk.v), i + 1)
           [] tk.k = "n" -> ParseOk(Num(tk.v), i + 1)
           [] tk.k = "s" -> ParseOk(Str(tk.v), i + 1)
           [] tk = P("[") ->
                IF TokAt(toks, i + 1) = P("]") THEN ParseOk(List(<<>>), i + 2)
                ELSE ParseElems(toks, i + 1, <<>>)
           [] tk = P("{") ->
                IF TokAt(toks, i + 1) = P("}") THEN ParseOk(Dict(<<>>), i + 2)
                ELSE ParseMembers(toks, i + 1, <<>>)
           [] OTHER -> ParseFail

ParseElems(toks, i, acc) ==
    LET r == ParseValue(toks, i) IN
    IF ~r.ok THEN ParseFail
    ELSE IF TokAt(toks, r.nxt) = P(",")
         THEN ParseElems(toks, r.nxt + 1, Append(acc, r.val))
    ELSE IF TokAt(toks, r.nxt) = P("]")
         THEN ParseOk(List(Append(acc, r.val)), r.nxt + 1)
    ELSE ParseFail

ParseMembers(toks, i, acc) ==
    LET key == TokAt(toks, i)
        r == ParseValue(toks, i + 2)
    IN
    IF key.k # "s" \/ TokAt(toks, i + 1) # P(":") THEN ParseFail
    ELSE IF ~r.ok THEN ParseFail
    ELSE IF TokAt(toks, r.nxt) = P(",")
         THEN ParseMembers(toks, r.nxt + 1, DictSet(acc, key.v, r.val))
    ELSE IF TokAt(toks, r.nxt) = P("}")
         THEN ParseOk(Dict(DictSet(acc, key.v, r.val)), r.nxt + 1)
    ELSE ParseFail

\* json.loads(text): ok is FALSE where the call raises JSONDecodeError
\* (no value, or text left over after the value).
json_loads(toks) ==
    LET r == ParseValue(toks, 1) IN
    IF r.ok /\ r.nxt = Len(toks) + 1 THEN r ELSE ParseFail

\* json.dumps(value), for the values that occur.
RECURSIVE json_dumps(_)
RECURSIVE DumpItems(_, _)
json_dumps(v) ==
    CASE v.t = "None" -> <<L("null")>>
      [] v.t = "bool" -> <<L(v.s)>>
      [] v.t = "int" -> <<N(v.s)>>
      [] v.t = "str" -> <<S(v.s)>>
      [] v.t = "pair" -> <<S(v.s), P(":")>> \o json_dumps(v.items[1])
      [] v.t = "list" -> <<P("[")>> \o DumpItems(v.items, 1) \o <<P("]")>>
      [] v.t = "dict" -> <<P("{")>> \o DumpItems(v.items, 1) \o <<P("}")>>
      [] OTHER -> <<W(v.s)>>

DumpItems(vs, i) ==
    IF i > Len(vs) THEN <<>>
    ELSE json_dumps(vs[i])
         \o (IF i < Len(vs) THEN <<P(",")>> ELSE <<>>)
         \o DumpItems(vs, i + 1)


(***************************************************************************)
(* Character strings that the code inspects (filenames, queries) are       *)
(* sequences of one-character strings.                                     *)
(***************************************************************************)
Lower(c) ==
    CASE c = "P" -> "p" [] c = "D" -> "d" [] c = "F" -> "f"
      [] c = "R" -> "r" [] c = "Q" -> "q" [] OTHER -> c

lower(str) == [i \in 1 .. Len(str) |-> Lower(str[i])]

\* Mutant: every name counts as ending in the suffix.
endswith_Always(str, suffix) == TRUE

endswith(str, suffix) ==
    /\ Len(str) >= Len(suffix)
    /\ SubSeq(str, Len(str) - Len(suffix) + 1, Len(str)) = suffix

IsSpace(c) == c \in {" ", "\t", "\n"}

RECURSIVE lstrip(_)
lstrip(str) ==
    IF str # <<>> /\ IsSpace(Head(str)) THEN lstrip(Tail(str)) ELSE str

RECURSIVE rstrip(_)
rstrip(str) ==
    IF str # <<>> /\ IsSpace(str[Len(str)])
    THEN rstrip(SubSeq(str, 1, Len(str) - 1)) ELSE str

\* Mutant: only the leading whitespace is removed.
strip_LeftOnly(str) == lstrip(str)

strip(str) == rstrip(lstrip(str))

DotPdf == <<".", "p", "d", "f">>
\* The default instruction, kept as one unit: it holds no outer whitespace.
DefaultQuery == <<"Analyze this financial document comprehensively">>

\* main.py:210  not file.filename or not file.filename.lower().endswith(".pdf")
InvalidFileType(filename) ==
    filename = <<>> \/ ~endswith(lower(filename), DotPdf)

\* main.py:229-232
NormalizeQuery(query) ==
    IF query = <<>> \/ strip(query) = <<>> THEN DefaultQuery ELSE strip(query)

(***************************************************************************)
(* The analysis_results table (models.py AnalysisResult): a function from  *)
(* the primary keys present to rows.  NULL in an integer column is         *)
(* NullId / NullTime; NULL in result_json and error_message is None.       *)
(***************************************************************************)
NullId == 0
NullTime == -1

Row(task_id, filename, user_id, now) ==
    [id |-> task_id, user_id |-> user_id, filename |-> filename,
     status |-> "pending", result_json |-> None, error_message |-> None,
     created_at |-> now, completed_at |-> NullTime]

\* crud.py get_analysis: the row, or no row (None).
Found(tbl, task_id) == task_id \in DOMAIN tbl

\* Mutant: the row is added to the session and never committed.
create_analysis_NoCommit(tbl, task_id, filename, user_id, now) == tbl

\* crud.py create_analysis: INSERT and commit.
create_analysis(tbl, task_id, filename, user_id, now) ==
    [i \in DOMAIN tbl \cup {task_id} |->
        IF i = task_id THEN Row(task_id, filename, user_id, now) ELSE tbl[i]]

\* Mutant: the UPDATE has no WHERE clause.
update_analysis_status_AllRows(tbl, task_id, status, error_message, now) ==
    IF ~Found(tbl, task_id) THEN tbl
    ELSE [i \in DOMAIN tbl |->
            [tbl[i] EXCEPT !.status = status,
                           !.error_message =
                               IF Truthy(error_message) THEN error_message ELSE @,
                           !.completed_at =
                               IF status = "completed" THEN now ELSE @]]

\* Mutant: a status update starts from a row without a result.
update_analysis_status_ClearsResult(tbl, task_id, status, error_message, now) ==
    IF ~Found(tbl, task_id) THEN tbl
    ELSE [tbl EXCEPT ![task_id] =
            [@ EXCEPT !.status = status,
                      !.result_json = None,
                      !.error_message =
                          IF Truthy(error_message) THEN error_message ELSE @,
                      !.completed_at =
                          IF status = "completed" THEN now ELSE @]]

\* Mutant: every UPDATE of a row stamps created_at anew.
update_analysis_status_Touch(tbl, task_id, status, error_message, now) ==
    IF ~Found(tbl, task_id) THEN tbl
    ELSE [tbl EXCEPT ![task_id] =
            [@ EXCEPT !.status = status,
                      !.created_at = now,
                      !.error_message =
                          IF Truthy(error_message) THEN error_message ELSE @,
                      !.completed_at =
                          IF status = "completed" THEN now ELSE @]]

\* crud.py update_analysis_status, as committed.
update_analysis_status(tbl, task_id, status, error_message, now) ==
    IF ~Found(tbl, task_id) THEN tbl
    ELSE [tbl EXCEPT ![task_id] =
            [@ EXCEPT !.status = status,
                      !.error_message =
                          IF Truthy(error_message) THEN error_message ELSE @,
                      !.completed_at =
                          IF status = "completed" THEN now ELSE @]]

\* Mutant: the result update inserts the row when there is none.
update_analysis_result_Upsert(tbl, task_id, status, result_json, now) ==
    [i \in DOMAIN tbl \cup {task_id} |->
        [(IF i \in DOMAIN tbl THEN tbl[i] ELSE Row(task_id, <<>>, NullId, now))
            EXCEPT !.status = IF i = task_id THEN status ELSE @,
                   !.result_json = IF i = task_id THEN result_json ELSE @,
                   !.completed_at = IF i = task_id THEN now ELSE @]]

\* Mutant: the result update forgets completed_at.
update_analysis_result_NoTimestamp(tbl, task_id, status, result_json, now) ==
    IF ~Found(tbl, task_id) THEN tbl
    ELSE [tbl EXCEPT ![task_id] =
            [@ EXCEPT !.status = status, !.result_json = result_json]]

\* Mutant: the new values stay in the session and are never committed.
update_analysis_result_NoCommit(tbl, task_id, status, result_json, now) == tbl

\* crud.py update_analysis_result, as committed.
update_analysis_result(tbl, task_id, status, result_json, now) ==
    IF ~Found(tbl, task_id) THEN tbl
    ELSE [tbl EXCEPT ![task_id] =
            [@ EXCEPT !.status = status,
                      !.result_json = result_json,
                      !.completed_at = now]]

\* Mutant: a NULL completed_at counts as older than any cutoff.
SqlLess_NullIsOld(a, b) == a = NullTime \/ a < b

\* SQL comparison completed_at < cutoff: not true of a NULL completed_at.
SqlLess(a, b) == a # NullTime /\ a < b

\* crud.py delete_old_analyses: the rows the filter selects, the table
\* after the delete, and the count returned.
OldAnalyses(tbl, days, now) ==
    {i \in DOMAIN tbl : SqlLess(tbl[i].completed_at, now - days)}

\* Mutant: the sweeper goes by the age of the record, created_at.
delete_old_analyses_ByCreation(tbl, days, now) ==
    [i \in {j \in DOMAIN tbl : ~(tbl[j].created_at < now - days)} |-> tbl[i]]

delete_old_analyses(tbl, days, now) ==
    [i \in DOMAIN tbl \ OldAnalyses(tbl, days, now) |-> tbl[i]]

\* Mutant: the count returned is that of all rows.
delete_old_count_Total(tbl, days, now) == Cardinality(DOMAIN tbl)

delete_old_count(tbl, days, now) == Cardinality(OldAnalyses(tbl, days, now))

(***************************************************************************)
(* The users table (models.py User): a set of rows [id, email].            *)
(***************************************************************************)
\* session.query(User).filter(User.email == email): the rows selected.
UsersByEmail(tbl, email) == {u \in tbl : u.email = email}

\* .first() of that query: a row of it (the one of lowest id), if any.
FirstUser(tbl, email) ==
    CHOOSE u \in UsersByEmail(tbl, email) :
        \A v \in UsersByEmail(tbl, email) : u.id <= v.id

\* The integer primary key given to an inserted row.
NextUserId(tbl) == Cardinality(tbl) + 1

\* Mutant: the column has no UNIQUE constraint.
UniqueEmail_Dropped(tbl, email) == TRUE

\* email = Column(..., unique=True): the INSERT of a second row with the
\* email fails (IntegrityError).
UniqueEmail(tbl, email) == UsersByEmail(tbl, email) = {}

\* crud.py get_or_create_user run alone: the table it leaves.
get_or_create_user(tbl, email) ==
    IF UsersByEmail(tbl, email) # {} THEN tbl
    ELSE tbl \cup {[id |-> NextUserId(tbl), email |-> email]}


(***************************************************************************)
(* The query endpoints, as functions of the table.  An HTTP response is    *)
(* its status code, the detail of an HTTPException and the body of a       *)
(* success.                                                                *)
(***************************************************************************)
NoBody == [none |-> TRUE]
HttpError(code, detail) == [code |-> code, detail |-> detail, body |-> NoBody]
HttpOk(body) == [code |-> 200, detail |-> "", body |-> body]

\* f"{value}" of a nullable text column.
Format(v) == IF v.t = "None" THEN "None" ELSE v.s

\* Mutant: a running record reports no progress.
Progress_RunningZero(status) == IF status = "completed" THEN 100 ELSE 0

\* main.py:353  {"pending": 0, "running": 50, "completed": 100, "failed": 0}.get(status, 0)
Progress(status) ==
    CASE status = "pending" -> 0
      [] status = "running" -> 50
      [] status = "completed" -> 100
      [] status = "failed" -> 0
      [] OTHER -> 0

\* schemas.py AnalysisStatusResponse: the pattern of status, 0 <= progress <= 100.
ValidStatusResponse(status, progress) ==
    /\ status \in {"pending", "running", "completed", "failed"}
    /\ progress >= 0 /\ progress <= 100

\* schemas.py AnalysisResultResponse: result is Optional[dict], error Optional[str].
ValidResultResponse(row) ==
    /\ row.result_json.t \in {"None", "dict"}
    /\ row.error_message.t \in {"None", "str"}

\* Mutant: an unknown task id is answered as a pending task.
check_status_NoNotFound(tbl, task_id) ==
    LET status == IF Found(tbl, task_id) THEN tbl[task_id].status ELSE "pending"
    IN HttpOk([task_id |-> task_id, status |-> status,
               progress |-> Progress(status)])

\* main.py check_status (GET /status/{task_id}).
check_status(tbl, task_id) ==
    IF ~Found(tbl, task_id) THEN HttpError(404, "Task " \o ToString(task_id) \o " not found")
    ELSE LET status == tbl[task_id].status
             progress == Progress(status)
         IN IF ~ValidStatusResponse(status, progress)
            THEN HttpError(500, "Error checking status")
            ELSE HttpOk([task_id |-> task_id, status |-> status,
                         progress |-> progress])

\* Mutant: only a pending record counts as still processing.
StillProcessing_PendingOnly(status) == status = "pending"

\* main.py:415  the record is not yet terminal.
StillProcessing(status) == status = "pending" \/ status = "running"

\* main.py get_analysis_result (GET /analysis/{task_id}).
get_analysis_result(tbl, task_id) ==
    IF ~Found(tbl, task_id) THEN HttpError(404, "Analysis " \o ToString(task_id) \o " not found")
    ELSE LET row == tbl[task_id] IN
         IF StillProcessing(row.status)
         THEN HttpError(202, "Analysis still processing. Current status: "
                              \o row.status \o ". Check /status/"
                              \o ToString(task_id))
         ELSE IF row.status = "failed"
         THEN HttpError(400, "Analysis failed: " \o Format(row.error_message))
         ELSE IF ~ValidResultResponse(row)
         THEN HttpError(500, "Error retrieving analysis")
         ELSE HttpOk([id |-> row.id, user_id |-> row.user_id,
                      filename |-> row.filename, status |-> row.status,
                      result |-> row.result_json, error |-> row.error_message,
                      created_at |-> row.created_at,
                      completed_at |-> row.completed_at])


(***************************************************************************)
(* Inputs.                                                                 *)
(***************************************************************************)
Filenames ==
    {<<"r", ".", "p", "d", "f">>, <<"R", ".", "P", "D", "F">>,
     <<"r", ".", "t", "x", "t">>, <<>>}
Queries == {<<>>, <<" ">>, <<" ", "q", " ", "q", "\n">>}
Emails == {None, Str("a@x.io")}
Days == {0, 1}

\* What Crew.kickoff does: it returns a str (as tokens, the declared return
\* type of run_crew_analysis) or raises.  str(exc) is "" for an exception
\* built without arguments, such as TimeoutError().
PyStr(toks) == [t |-> "str", toks |-> toks]
Unset == [t |-> "unset", toks |-> <<>>]

BuyPayload ==
    <<P("{"), S("recommendation"), P(":"), S("BUY"), P(","),
      S("confidence_score"), P(":"), N("80"), P("}")>>

Returned(v) == [raised |-> FALSE, value |-> v, message |-> ""]
Raised(m) == [raised |-> TRUE, value |-> Unset, message |-> m]

Outcomes ==
    {Returned(PyStr(BuyPayload)),
     Returned(PyStr(<<L("null")>>)),
     Returned(PyStr(<<P("["), N("1"), P("]")>>)),
     Returned(PyStr(<<W("Revenue grew.")>>)),
     Raised(""),
     Raised("LLM request timed out")}

\* str(exc) of the exceptions a step of the task body may raise.
ErrorMessages == {"database is locked", ""}

\* main.py run_crew_analysis: the result of kickoff, or, when kickoff
\* raises, json.dumps({"error": str(e), "status": "failed"}).
run_crew_analysis(outcome) ==
    IF outcome.raised
    THEN PyStr(json_dumps(Dict(<<Pair("error", Str(outcome.message)),
                                 Pair("status", Str("failed"))>>)))
    ELSE outcome.value

\* Mutant: text that is no JSON is dropped instead of being wrapped.
ParseResult_Null(analysis_result) ==
    LET r == json_loads(analysis_result.toks) IN
    IF r.ok THEN r.val ELSE None

\* celery_app.py:122-128  json.loads, or the raw text wrapped.
ParseResult(analysis_result) ==
    LET r == json_loads(analysis_result.toks) IN
    IF r.ok THEN r.val
    ELSE Dict(<<Pair("raw_analysis", Str(Text(analysis_result.toks)))>>)

(***************************************************************************)
(* State.                                                                  *)
(***************************************************************************)
VARIABLES
    db,       \* table analysis_results: task id -> row
    users,    \* table users: its rows
    files,    \* task ids whose uploaded file is on disk
    used,     \* uuids drawn so far for stored submissions
    queue,    \* messages on the broker
    run,      \* worker -> the task invocation it is executing
    celery,   \* result backend: task id -> state of the Celery task
    now,      \* the clock (datetime.utcnow)
    http,     \* the call made by the step just taken and its answer, if any
    callers   \* caller -> its position in get_or_create_user (OwnerSpec)

vars == <<db, users, files, used, queue, run, celery, now, http, callers>>

\* A call (its endpoint or function, the task id it names, its other
\* arguments) with its response.
NoArgs == [none |-> TRUE]
Call(op, task_id, args, resp) ==
    [op |-> op, task_id |-> task_id, args |-> args, code |-> resp.code,
     detail |-> resp.detail, body |-> resp.body]
Exchange(op, task_id, resp) == Call(op, task_id, NoArgs, resp)
NoResponse == Exchange("none", 0, [code |-> 0, detail |-> "", body |-> NoBody])

\* The locals of one invocation of the task.  raised records whether
\* kickoff raised inside run_crew_analysis (history: the task cannot tell),
\* attempted whether the handler called the failed-status update (history).
Idle ==
    [pc |-> "idle", task_id |-> 0, query |-> <<>>, user_id |-> NullId,
     session |-> "none",
     analysis_result |-> Unset, raised |-> FALSE, result_json |-> None,
     exc |-> None, attempted |-> FALSE]
Meta(state, result, error) ==
    [state |-> state, result |-> result, error |-> error]

\* The locals of one call of get_or_create_user: its argument, the row its
\* query found, the id of the user it returned.
IdleCaller == [pc |-> "idle", email |-> "", user |-> NullId, ret |-> NullId]

Init ==
    /\ db = <<>>
    /\ users = {}
    /\ files = {}
    /\ used = {}
    /\ queue = {}
    /\ run = [w \in Workers |-> Idle]
    /\ celery = [i \in TaskIds |-> Meta("PENDING", None, None)]
    /\ now = 0
    /\ http = NoResponse
    /\ callers = [c \in Callers |-> IdleCaller]


(***************************************************************************)
(* POST /analyze (main.py submit_analysis).  fault names the call of the   *)
(* handler that raises, if any: writing the file, get_or_create_user       *)
(* (caught: the handler goes on without a user), create_analysis before    *)
(* its commit, create_analysis after it (session.refresh), or apply_async. *)
(* The last three are answered 500 after an attempt to remove the file;    *)
(* cleanup is what os.remove did ("kept": it raised, which is passed       *)
(* over).  "usercommit" is get_or_create_user raising in its commit of a   *)
(* new user (crud.py:34): the exception is caught like any other of that   *)
(* call, but the flush that failed leaves the transaction of the request's *)
(* session rolled back and inactive, nothing in the handler calls          *)
(* session.rollback(), and the commit of create_analysis on that session   *)
(* raises in its turn.                                                     *)
(***************************************************************************)
SubmitFaults ==
    {"none", "write", "user", "usercommit", "create", "refresh", "enqueue"}
CleanupOutcomes == {"removed", "kept"}

\* uuid.uuid4(): an identifier no earlier submission drew.
FreshId == CHOOSE i \in TaskIds : i \notin used /\ \A j \in 1 .. (i - 1) : j \in used

Message(task_id, query, user_id) ==
    [task_id |-> task_id, file_path |-> task_id, query |-> query,
     user_id |-> user_id]

SubmitOk(task_id) ==
    HttpOk([task_id |-> task_id, status |-> "pending",
            message |-> "Analysis submitted successfully. Use status endpoint to check progress.",
            status_url |-> <<"/status/", task_id>>])

\* The handler on a filename that fails validation: HTTP 400 (main.py:210-214).
SubmitInvalid(filename) ==
    /\ InvalidFileType(filename)
    /\ http' = Call("analyze", 0, [filename |-> filename],
                     HttpError(400, "Only PDF files are supported"))
    /\ UNCHANGED <<db, users, files, used, queue, run, celery, now, callers>>

\* Mutant: the except branch leaves the file where it is.
Cleanup_Skipped(on_disk, file_id, cleanup) == on_disk

\* main.py:285-290  os.remove(file_path) if the file exists; an exception
\* of os.remove is passed over.
Cleanup(on_disk, file_id, cleanup) ==
    IF cleanup = "kept" THEN on_disk ELSE on_disk \ {file_id}

\* The handler on a filename that passes validation.
Submit(filename, query0, email, fault, cleanup) ==
    /\ ~InvalidFileType(filename)
    /\ used # TaskIds
    /\ LET file_id == FreshId
           query == NormalizeQuery(query0)
           poisoned == /\ fault = "usercommit" /\ Truthy(email)
                       /\ UsersByEmail(users, email.s) = {}
           lookup == /\ Truthy(email) /\ fault # "user" /\ fault # "write"
                     /\ ~poisoned
           users1 == IF lookup THEN get_or_create_user(users, email.s) ELSE users
           user_id == IF lookup THEN FirstUser(users1, email.s).id ELSE NullId
           created == /\ fault \in {"none", "user", "usercommit", "refresh",
                                     "enqueue"}
                      /\ ~poisoned
           enqueued == fault \in {"none", "user", "usercommit"} /\ ~poisoned
           written == fault # "write"
           args == [filename |-> filename, query |-> query0, email |-> email,
                    fault |-> IF fault = "usercommit" /\ ~poisoned
                              THEN "none" ELSE fault,
                    cleanup |-> IF written /\ ~enqueued THEN cleanup ELSE "none"]
       IN /\ used' = used \cup {file_id}
          /\ users' = users1
          /\ db' = IF created
                   THEN create_analysis(db, file_id, filename, user_id, now)
                   ELSE db
          /\ files' = IF enqueued THEN files \cup {file_id}
                      ELSE IF written
                      THEN Cleanup(files \cup {file_id}, file_id, cleanup)
                      ELSE files
          /\ IF enqueued
             THEN /\ queue' = queue \cup {Message(file_id, query, user_id)}
                  /\ http' = Call("analyze", file_id, args, SubmitOk(file_id))
             ELSE /\ queue' = queue
                  /\ http' = Call("analyze", file_id, args,
                                  HttpError(500, "Error submitting analysis"))
          /\ UNCHANGED <<run, celery, now, callers>>

\* The handler while fewer than MaxJobs identifiers have been drawn.
BoundedSubmit(filename, query0, email, fault, cleanup) ==
    /\ Cardinality(used) < MaxJobs
    /\ Submit(filename, query0, email, fault, cleanup)

(***************************************************************************)
(* The Celery task analyze_document_task (celery_app.py:66-181), one       *)
(* action per step of its body.                                            *)
(***************************************************************************)
\* The worker takes a message off the broker; task_track_started reports it.
Dequeue(w) ==
    /\ run[w].pc = "idle"
    /\ \E msg \in queue :
        /\ queue' = queue \ {msg}
        /\ run' = [run EXCEPT ![w] = [Idle EXCEPT !.pc = "begin",
                                                  !.task_id = msg.task_id,
                                                  !.query = msg.query,
                                                  !.user_id = msg.user_id]]
        /\ celery' = [celery EXCEPT ![msg.task_id] = Meta("STARTED", None, None)]
    /\ http' = NoResponse
    /\ UNCHANGED <<db, users, files, used, now, callers>>

\* A delivery whose acknowledgement does not reach the broker (the worker
\* acknowledges a message when it starts the task, celery_app.py:45-62 sets
\* no task_acks_late): the worker runs the task and the broker, which still
\* holds the message, delivers it again later.
DequeueUnacked(w) ==
    /\ run[w].pc = "idle"
    /\ \E msg \in queue :
        /\ run' = [run EXCEPT ![w] = [Idle EXCEPT !.pc = "begin",
                                                  !.task_id = msg.task_id,
                                                  !.query = msg.query,
                                                  !.user_id = msg.user_id]]
        /\ celery' = [celery EXCEPT ![msg.task_id] = Meta("STARTED", None, None)]
    /\ http' = NoResponse
    /\ UNCHANGED <<db, users, files, used, queue, now, callers>>

\* A database call of the task body: it returns, raises before its commit,
\* or an exception reaches the task after the commit (session.refresh, or
\* SoftTimeLimitExceeded of task_soft_time_limit before the call returns).
DbFaults == {"ok", "before", "after"}

Raise(r, m) == [r EXCEPT !.pc = "except", !.exc = Str(m)]

\* celery_app.py:100-115  imports, SessionLocal(), status := running.
Begin(w) ==
    /\ run[w].pc = "begin"
    /\ \E f \in DbFaults \cup {"nosession"}, m \in ErrorMessages :
        /\ db' = IF f \in {"ok", "after"}
                 THEN update_analysis_status(db, run[w].task_id, "running", None, now)
                 ELSE db
        /\ run' = [run EXCEPT ![w] =
                CASE f = "ok" -> [@ EXCEPT !.pc = "analyze", !.session = "open"]
                  [] f = "nosession" -> Raise(@, m)
                  [] OTHER -> Raise([@ EXCEPT !.session = "open"], m)]
    /\ http' = NoResponse
    /\ UNCHANGED <<users, files, used, queue, celery, now, callers>>

\* celery_app.py:117-120  run_crew_analysis(query, file_path).
Analyze(w) ==
    /\ run[w].pc = "analyze"
    /\ \E outcome \in Outcomes :
        run' = [run EXCEPT ![w] = [@ EXCEPT !.pc = "store",
                    !.analysis_result = run_crew_analysis(outcome),
                    !.raised = outcome.raised]]
    /\ http' = NoResponse
    /\ UNCHANGED <<db, users, files, used, queue, celery, now, callers>>

\* celery_app.py:122-139  parse the result and store it as completed.
Store(w) ==
    /\ run[w].pc = "store"
    /\ LET result_json == ParseResult(run[w].analysis_result) IN
       \E f \in DbFaults, m \in ErrorMessages :
         /\ db' = IF f \in {"ok", "after"}
                  THEN update_analysis_result(db, run[w].task_id,
                                              "completed", result_json, now)
                  ELSE db
         /\ run' = [run EXCEPT ![w] =
                 IF f = "ok"
                 THEN [@ EXCEPT !.pc = "return", !.result_json = result_json]
                 ELSE Raise(@, m)]
    /\ http' = NoResponse
    /\ UNCHANGED <<users, files, used, queue, celery, now, callers>>

\* Mutant: an exception of the failed-status update replaces the one the
\* handler caught.
Except_Masked(w) ==
    /\ run[w].pc = "except"
    /\ \E f \in DbFaults :
        /\ db' = IF run[w].session = "open" /\ f \in {"ok", "after"}
                 THEN update_analysis_status(db, run[w].task_id, "failed",
                                             run[w].exc, now)
                 ELSE db
        /\ run' = [run EXCEPT ![w] =
                    [@ EXCEPT !.pc = "signal",
                              !.attempted = (run[w].session = "open"),
                              !.exc = IF f = "ok" THEN @
                                      ELSE Str("failed-status update raised")]]
    /\ http' = NoResponse
    /\ UNCHANGED <<users, files, used, queue, celery, now, callers>>

\* celery_app.py:147-163  the handler: status := failed with str(exc); an
\* exception of that update is logged and dropped.
Except(w) ==
    /\ run[w].pc = "except"
    /\ \E f \in DbFaults :
        db' = IF run[w].session = "open" /\ f \in {"ok", "after"}
              THEN update_analysis_status(db, run[w].task_id, "failed",
                                          run[w].exc, now)
              ELSE db
    /\ run' = [run EXCEPT ![w] = [@ EXCEPT !.pc = "signal",
                                          !.attempted = (run[w].session = "open")]]
    /\ http' = NoResponse
    /\ UNCHANGED <<users, files, used, queue, celery, now, callers>>

\* celery_app.py:166-169  self.update_state(state="FAILURE", meta=...).
Signal(w) ==
    /\ run[w].pc = "signal"
    /\ celery' = [celery EXCEPT ![run[w].task_id] =
                      Meta("FAILURE", None, run[w].exc)]
    /\ run' = [run EXCEPT ![w] = [@ EXCEPT !.pc = "reraise"]]
    /\ http' = NoResponse
    /\ UNCHANGED <<db, users, files, used, queue, now, callers>>

\* The value the task returns (celery_app.py:141-145).
TaskReturn(task_id, result_json) ==
    Dict(<<Pair("status", Str("completed")),
           Pair("task_id", Str(ToString(task_id))),
           Pair("result", result_json)>>)

\* celery_app.py:174-181  if session: session.close(); an exception of
\* close is logged and goes no further.  The session of a worker that is
\* idle is the one its last run left.
CloseOutcomes == {"ok", "raises"}

\* Mutant: the task ends without a finally clause.
Close_Never(session, outcome) == session

Close(session, outcome) ==
    IF session # "open" THEN session
    ELSE IF outcome = "ok" THEN "closed" ELSE "close_failed"

\* celery_app.py:172-181  the task ends by its return or by the re-raise,
\* through the finally clause, and the worker records the outcome.
Finish(w) ==
    /\ run[w].pc \in {"return", "reraise"}
    /\ celery' = [celery EXCEPT ![run[w].task_id] =
            IF run[w].pc = "return"
            THEN Meta("SUCCESS", TaskReturn(run[w].task_id, run[w].result_json), None)
            ELSE Meta("FAILURE", None, run[w].exc)]
    /\ \E outcome \in CloseOutcomes :
          run' = [run EXCEPT ![w] =
                    [Idle EXCEPT !.session = Close(run[w].session, outcome)]]
    /\ http' = NoResponse
    /\ UNCHANGED <<db, users, files, used, queue, now, callers>>

\* celery_app.py:55  task_time_limit = 30 * 60: when a run has lasted that
\* long the pool kills the process that executes it and the worker records
\* TimeLimitExceeded for the task; no statement of the task body runs any
\* more, neither the handler nor the finally clause, and a new process
\* takes the place of the one killed.
TimeLimit(w) ==
    /\ run[w].pc # "idle"
    /\ celery' = [celery EXCEPT ![run[w].task_id] =
                      Meta("FAILURE", None, Str("TimeLimitExceeded(1800,)"))]
    /\ run' = [run EXCEPT ![w] = Idle]
    /\ http' = NoResponse
    /\ UNCHANGED <<db, users, files, used, queue, now, callers>>

(***************************************************************************)
(* The query endpoints, the sweeper and the clock.                         *)
(***************************************************************************)
GetStatus(task_id) ==
    /\ http' = Exchange("status", task_id, check_status(db, task_id))
    /\ UNCHANGED <<db, users, files, used, queue, run, celery, now, callers>>

\* Mutant: a record that was read is dropped from the table.
GetResult_Consume(task_id) ==
    /\ http' = Exchange("result", task_id, get_analysis_result(db, task_id))
    /\ db' = [i \in DOMAIN db \ {task_id} |-> db[i]]
    /\ UNCHANGED <<users, files, used, queue, run, celery, now, callers>>

GetResult(task_id) ==
    /\ http' = Exchange("result", task_id, get_analysis_result(db, task_id))
    /\ UNCHANGED <<db, users, files, used, queue, run, celery, now, callers>>

\* main.py health_check (GET /health).
Health ==
    /\ http' = Exchange("health", 0, HttpOk([status |-> "healthy",
                                              timestamp |-> now]))
    /\ UNCHANGED <<db, users, files, used, queue, run, celery, now, callers>>

\* crud.py delete_old_analyses(session, days); the count is what it returns.
Sweep(days) ==
    /\ db' = delete_old_analyses(db, days, now)
    /\ http' = Call("sweep", 0, [days |-> days],
                     HttpOk([deleted |-> delete_old_count(db, days, now)]))
    /\ UNCHANGED <<users, files, used, queue, run, celery, now, callers>>

Tick ==
    /\ now < MaxTime
    /\ now' = now + 1
    /\ http' = NoResponse
    /\ UNCHANGED <<db, users, files, used, queue, run, celery, callers>>

Next ==
    \/ \E f \in Filenames : SubmitInvalid(f)
    \/ \E f \in Filenames, q \in Queries, e \in Emails, x \in SubmitFaults,
           c \in CleanupOutcomes :
          BoundedSubmit(f, q, e, x, c)
    \/ \E w \in Workers : Dequeue(w)
    \/ \E w \in Workers : Begin(w)
    \/ \E w \in Workers : Analyze(w)
    \/ \E w \in Workers : Store(w)
    \/ \E w \in Workers : Except(w)
    \/ \E w \in Workers : Signal(w)
    \/ \E w \in Workers : Finish(w)
    \/ \E i \in TaskIds : GetStatus(i)
    \/ \E i \in TaskIds : GetResult(i)
    \/ Health
    \/ \E d \in Days : Sweep(d)
    \/ Tick

Spec == Init /\ [][Next]_vars


(***************************************************************************)
(* Two submissions: the handler on well-formed requests and the task,      *)
(* with one more job than Spec admits.                                     *)
(***************************************************************************)
PairNext ==
    \/ \E e \in Emails, x \in {"none", "user"} :
          Submit(<<"r", ".", "p", "d", "f">>, <<>>, e, x, "removed")
    \/ \E w \in Workers : Dequeue(w)
    \/ \E w \in Workers : Begin(w)
    \/ \E w \in Workers : Analyze(w)
    \/ \E w \in Workers : Store(w)
    \/ \E w \in Workers : Except(w)
    \/ \E w \in Workers : Signal(w)
    \/ \E w \in Workers : Finish(w)

PairSpec == Init /\ [][PairNext]_vars


(***************************************************************************)
(* One submission that is accepted, a worker that keeps going, and the     *)
(* hard time limit.  A worker that can take a step of a run eventually     *)
(* takes one: it takes the next message when it is idle, and every call of *)
(* the task body returns or raises.  The time limit may strike any run,    *)
(* and need not.                                                           *)
(***************************************************************************)
WorkerStep(w) ==
    \/ Dequeue(w)
    \/ Begin(w)
    \/ Analyze(w)
    \/ Store(w)
    \/ Except(w)
    \/ Signal(w)
    \/ Finish(w)

LiveNext ==
    \/ \E e \in Emails :
          BoundedSubmit(<<"r", ".", "p", "d", "f">>, <<>>, e, "none", "removed")
    \/ \E w \in Workers : WorkerStep(w)
    \/ \E w \in Workers : TimeLimit(w)
    \/ \E i \in TaskIds : GetStatus(i)
    \/ \E i \in TaskIds : GetResult(i)

LiveSpec ==
    Init /\ [][LiveNext]_vars /\ \A w \in Workers : WF_vars(WorkerStep(w))


(***************************************************************************)
(* Redelivery: one submission, one worker process more than Spec has, and  *)
(* deliveries that are not acknowledged, so that the task may run again on *)
(* a record an earlier run finished with (and the sweeper may have         *)
(* deleted), or while another run of it is under way.                      *)
(***************************************************************************)
Racers == 1 .. (NumWorkers + 1)

RaceInit ==
    /\ db = <<>>
    /\ users = {}
    /\ files = {}
    /\ used = {}
    /\ queue = {}
    /\ run = [w \in Racers |-> Idle]
    /\ celery = [i \in TaskIds |-> Meta("PENDING", None, None)]
    /\ now = 0
    /\ http = NoResponse
    /\ callers = [c \in Callers |-> IdleCaller]

RaceNext ==
    \/ BoundedSubmit(<<"r", ".", "p", "d", "f">>, <<>>, None, "none", "removed")
    \/ \E w \in Racers : Dequeue(w)
    \/ \E w \in Racers : DequeueUnacked(w)
    \/ \E w \in Racers : Begin(w)
    \/ \E w \in Racers : Analyze(w)
    \/ \E w \in Racers : Store(w)
    \/ \E w \in Racers : Except(w)
    \/ \E w \in Racers : Signal(w)
    \/ \E w \in Racers : Finish(w)

RaceSpec == RaceInit /\ [][RaceNext]_vars

\* One worker, deliveries that are not acknowledged, the sweeper and the
\* clock.
RedeliverNext ==
    \/ BoundedSubmit(<<"r", ".", "p", "d", "f">>, <<>>, None, "none", "removed")
    \/ \E w \in Workers : Dequeue(w)
    \/ \E w \in Workers : DequeueUnacked(w)
    \/ \E w \in Workers : Begin(w)
    \/ \E w \in Workers : Analyze(w)
    \/ \E w \in Workers : Store(w)
    \/ \E w \in Workers : Except(w)
    \/ \E w \in Workers : Signal(w)
    \/ \E w \in Workers : Finish(w)
    \/ \E d \in Days : Sweep(d)
    \/ Tick

RedeliverSpec == Init /\ [][RedeliverNext]_vars


(***************************************************************************)
(* crud.py get_or_create_user statement by statement, called by requests   *)
(* that run at the same time (each with its own session).                  *)
(***************************************************************************)
OwnerEmails == {"a@x.io", "b@y.io"}

\* crud.py:29-30, 37-38  the query; a user that was found is returned.
OwnerQuery(c, email) ==
    /\ callers[c].pc = "idle"
    /\ callers' = [callers EXCEPT ![c] =
            IF UsersByEmail(users, email) # {}
            THEN [pc |-> "returned", email |-> email,
                  user |-> FirstUser(users, email).id,
                  ret |-> FirstUser(users, email).id]
            ELSE [pc |-> "insert", email |-> email, user |-> NullId,
                  ret |-> NullId]]
    /\ UNCHANGED <<db, users, files, used, queue, run, celery, now, http>>

\* crud.py:31-36, 39  User(email=email), add, commit, refresh, return; the
\* commit raises when the email is in the table by now.
OwnerCommit(c) ==
    /\ callers[c].pc = "insert"
    /\ IF UniqueEmail(users, callers[c].email)
       THEN /\ users' = users \cup {[id |-> NextUserId(users),
                                     email |-> callers[c].email]}
            /\ callers' = [callers EXCEPT ![c] =
                    [@ EXCEPT !.pc = "returned", !.ret = NextUserId(users)]]
       ELSE /\ users' = users
            /\ callers' = [callers EXCEPT ![c] = [@ EXCEPT !.pc = "raised"]]
    /\ UNCHANGED <<db, files, used, queue, run, celery, now, http>>

\* main.py:234-242  the handler has its user, or None after an exception.
OwnerDone(c) ==
    /\ callers[c].pc \in {"returned", "raised"}
    /\ callers' = [callers EXCEPT ![c] = IdleCaller]
    /\ UNCHANGED <<db, users, files, used, queue, run, celery, now, http>>

OwnerNext ==
    \/ \E c \in Callers, e \in OwnerEmails : OwnerQuery(c, e)
    \/ \E c \in Callers : OwnerCommit(c)
    \/ \E c \in Callers : OwnerDone(c)

OwnerSpec == Init /\ [][OwnerNext]_vars


(***************************************************************************)
(* Properties.                                                             *)
(***************************************************************************)
Terminal == {"completed", "failed"}
Rows == DOMAIN db

\* One step of the lifecycle pending -> running -> (completed | failed).
Forward(a, b) ==
    \/ a = b
    \/ a = "pending" /\ b = "running"
    \/ a = "running" /\ b \in Terminal

\* C1: the status of a record is created pending and afterwards only moves
\* along pending -> running -> (completed | failed): it never reverts, never
\* skips, and never changes once terminal.
C1_StatusSequence ==
    [][/\ \A i \in DOMAIN db' \ DOMAIN db : db'[i].status = "pending"
       /\ \A i \in DOMAIN db \cap DOMAIN db' :
              Forward(db[i].status, db'[i].status)]_vars

\* C2: in every state, result_json of a record is non-null exactly when its
\* status is completed.
C2_ResultIffCompleted ==
    \A i \in Rows : (db[i].result_json # None) <=> (db[i].status = "completed")

\* C3: in every state, error_message of a record is non-null exactly when
\* its status is failed.
C3_ErrorIffFailed ==
    \A i \in Rows : (db[i].error_message # None) <=> (db[i].status = "failed")

\* C4: in every state, completed_at of a record is null exactly when its
\* status is pending or running.
C4_CompletedAtIffTerminal ==
    \A i \in Rows :
        (db[i].completed_at = NullTime) <=> (db[i].status \in {"pending", "running"})

\* C5: when kickoff raised during a run, then once the run has made its
\* updates the record is failed, carries an error message, has completed_at
\* set, and is not completed.
C5_RaiseEndsFailed ==
    \A w \in Workers :
        (run[w].raised /\ run[w].pc \in {"return", "reraise"}
            /\ Found(db, run[w].task_id))
        => LET row == db[run[w].task_id] IN
           /\ row.status = "failed"
           /\ row.error_message # None
           /\ row.completed_at # NullTime

\* The collaborator's text is a JSON object.
IsJsonObject(analysis_result) ==
    /\ json_loads(analysis_result.toks).ok
    /\ json_loads(analysis_result.toks).val.t = "dict"

\* C6: when the collaborator returned a JSON object, the step that stores the
\* result takes the record from running to completed, writing the parsed
\* payload and completed_at in that one update and nothing else, and
\* GET /analysis/{id} then answers 200 with exactly that payload as result.
C6_ObjectStoredAndReturned ==
    [][\A w \in Workers :
        (run[w].pc = "store" /\ run'[w].pc = "return"
            /\ IsJsonObject(run[w].analysis_result))
        => LET i == run[w].task_id
               payload == json_loads(run[w].analysis_result.toks).val
           IN /\ Found(db, i) /\ db[i].status = "running"
              /\ Found(db', i)
              /\ db'[i] = [db[i] EXCEPT !.status = "completed",
                                        !.result_json = payload,
                                        !.completed_at = now]
              /\ get_analysis_result(db', i).code = 200
              /\ get_analysis_result(db', i).body.result = payload]_vars

\* Witness of C6: GET /analysis answered 200 with the BUY payload, parsed.
C6_Witness ==
    /\ http.op = "result" /\ http.code = 200
    /\ http.body.status = "completed"
    /\ http.body.completed_at # NullTime
    /\ http.body.result =
         Dict(<<Pair("recommendation", Str("BUY")),
                Pair("confidence_score", Num("80"))>>)

\* C7: GET /status and GET /analysis on a task id that was never submitted,
\* or that has no record, answer 404, and no record exists for it afterwards.
C7_UnknownIsNotFound ==
    http.op \in {"status", "result"}
    => /\ http.task_id \notin used
          => (http.code = 404 /\ ~Found(db, http.task_id))
       /\ ~Found(db, http.task_id) => http.code = 404

\* Witness of C7: a query of each kind on a never-submitted id answered 404
\* while another task has a record.
C7_Witness ==
    /\ http.op = "result" /\ http.task_id \notin used
    /\ http.code = 404 /\ Rows # {}

\* C8: GET /analysis on a pending or running record answers 202, which is
\* not the 404 of an unknown id, and carries no result data.
C8_StillProcessing ==
    (http.op = "result" /\ Found(db, http.task_id)
        /\ db[http.task_id].status \in {"pending", "running"})
    => (http.code = 202 /\ http.body = NoBody)

\* Witness of C8: the request was made on a running record.
C8_Witness ==
    /\ http.op = "result" /\ Found(db, http.task_id)
    /\ db[http.task_id].status = "running" /\ http.code = 202

C10_ProgressMapping ==
    (http.op = "status" /\ Found(db, http.task_id))
    => LET st == db[http.task_id].status IN
       /\ http.code = 200
       /\ http.body.status = st
       /\ http.body.progress =
            (CASE st = "pending" -> 0 [] st = "running" -> 50
               [] st = "completed" -> 100 [] st = "failed" -> 0)

\* Witness of C10: the status of a running record was asked and came with 50.
C10_Witness ==
    /\ http.op = "status" /\ Found(db, http.task_id)
    /\ db[http.task_id].status = "running"
    /\ http.body.progress = 50

\* C11: GET /status, GET /analysis and GET /health are pure reads: whatever
\* they answer (200, 404, 202, 400, 500), the set of records and every field
\* of every record, and the users, files and queue, are as before the call.
C11_PureReads ==
    [][http'.op \in {"status", "result", "health"}
        => UNCHANGED <<db, users, files, queue>>]_vars

\* Witness of C11: GET /analysis was answered 400 on a failed record, which
\* is still there.
C11_Witness ==
    /\ http.op = "result" /\ http.code = 400
    /\ Found(db, http.task_id) /\ db[http.task_id].status = "failed"

\* The filenames of the inputs that are missing or do not end in .pdf.
NotPdf == {<<"r", ".", "t", "x", "t">>, <<>>}

\* C12: a submission whose filename is missing or does not end in .pdf is
\* answered 400 and persists nothing: no file, no record, no user, no job.
C12_NonPdfRejected ==
    [][(http'.op = "analyze" /\ http'.args.filename \in NotPdf)
        => (http'.code = 400 /\ UNCHANGED <<db, users, files, queue>>)]_vars

\* Witness of C12: r.txt was rejected while nothing is stored.
C12_Witness ==
    /\ http.op = "analyze" /\ http.code = 400
    /\ http.args.filename = <<"r", ".", "t", "x", "t">>
    /\ db = <<>> /\ files = {} /\ queue = {}

C14_FailedSubmitCleansUp ==
    (http.op = "analyze" /\ http.code # 400
        /\ http.args.fault \in {"create", "refresh", "enqueue"})
    => /\ http.code = 500
       /\ \A msg \in queue : msg.task_id # http.task_id
       /\ http.args.cleanup = "removed" => http.task_id \notin files

\* Witness of C14: apply_async raised after the record was committed; the
\* file was removed.
C14_Witness ==
    /\ http.op = "analyze" /\ http.code = 500
    /\ http.args.fault = "enqueue" /\ http.args.cleanup = "removed"
    /\ Found(db, http.task_id) /\ http.task_id \notin files

\* The task id that a step of worker w is about.
StepTask(w) == IF run[w].pc = "idle" THEN run'[w].task_id ELSE run[w].task_id

\* C15: a submission that is answered 200 gets a task id that no earlier
\* submission drew and that has no record yet, and a step of the task for one
\* job creates and deletes no record and leaves every other job's record as
\* it was.
C15_DistinctAndIsolated ==
    [][/\ (http'.op = "analyze" /\ http'.code = 200)
          => (http'.task_id \notin used /\ ~Found(db, http'.task_id)
              /\ Found(db', http'.task_id))
       /\ \A w \in Workers :
            run'[w] # run[w]
            => /\ DOMAIN db' = DOMAIN db
               /\ \A i \in DOMAIN db \ {StepTask(w)} : db'[i] = db[i]]_vars

\* Witness of C15: two records, one completed while the other is untouched.
C15_Witness ==
    \E i, j \in Rows :
        /\ i # j
        /\ db[i].status = "completed" /\ db[i].result_json # None
        /\ db[j].status = "pending" /\ db[j].result_json = None
        /\ db[j].completed_at = NullTime

\* A row is old for a threshold of days: completed_at is set and earlier
\* than now - days.
IsOld(row, days) == row.completed_at # NullTime /\ row.completed_at < now - days

C17_SweepIdempotent ==
    /\ \A d \in Days :
          LET once == delete_old_analyses(db, d, now) IN
          /\ delete_old_analyses(once, d, now) = once
          /\ delete_old_count(once, d, now) = 0
    /\ http.op = "sweep"
       => /\ delete_old_analyses(db, http.args.days, now) = db
          /\ delete_old_count(db, http.args.days, now) = 0

\* Witness of C17: the completed record was swept before, and the sweeper
\* ran again and returned 0.
C17_Witness ==
    /\ http.op = "sweep" /\ http.body.deleted = 0 /\ db = <<>>
    /\ \E i \in TaskIds : celery[i].state = "SUCCESS"

\* C18: the table that create_analysis leaves holds the new row with status
\* pending, and the table that update_analysis_result(id, completed, r)
\* leaves holds status completed, result_json r and completed_at set: after
\* a 200 of POST /analyze, and once the task's update has returned, any
\* other session reads these values.
C18_CommittedOnReturn ==
    /\ \A i \in TaskIds \ Rows, f \in Filenames :
          LET t == create_analysis(db, i, f, NullId, now)
          IN Found(t, i) /\ t[i].status = "pending" /\ t[i].filename = f
    /\ \A i \in Rows :
          LET r == Dict(<<Pair("recommendation", Str("HOLD"))>>)
              t == update_analysis_result(db, i, "completed", r, now)
          IN /\ Found(t, i) /\ t[i].status = "completed"
             /\ t[i].result_json = r /\ t[i].completed_at # NullTime
    /\ \A w \in Workers :
          (run[w].pc = "return" /\ Found(db, run[w].task_id))
          => LET row == db[run[w].task_id]
             IN /\ row.status = "completed"
                /\ row.result_json = run[w].result_json
                /\ row.completed_at # NullTime

\* Witness of C18: the update has returned and GET /status, from its own
\* session, reads completed.
C18_Witness ==
    /\ \E w \in Workers : run[w].pc = "return"
    /\ http.op = "status" /\ http.code = 200
    /\ http.body.status = "completed"

\* C19: whatever the interleaving of the calls, the users table holds at
\* most one row per email and one row per id, and a call that has returned
\* has returned the id of the one row of its email.
C19_OneOwnerPerEmail ==
    /\ \A e \in OwnerEmails : Cardinality(UsersByEmail(users, e)) <= 1
    /\ \A u, v \in users : u.id = v.id => u = v
    /\ \A c \in Callers :
          callers[c].pc = "returned"
          => UsersByEmail(users, callers[c].email) =
                 {[id |-> callers[c].ret, email |-> callers[c].email]}

\* Witness of C19: two calls with one email ran at the same time: one
\* inserted the row and returned it, the other's commit raised.
C19_Witness ==
    \E c, d \in Callers :
        /\ callers[c].pc = "returned" /\ callers[d].pc = "raised"
        /\ callers[c].email = callers[d].email
        /\ callers[c].user = NullId

\* A query of whitespace only (or empty), and a query without its leading
\* and trailing whitespace.
Blank(q) == \A i \in DOMAIN q : q[i] \in {" ", "\t", "\n"}
Inner(q) ==
    LET ink == {i \in DOMAIN q : q[i] \notin {" ", "\t", "\n"}}
        a == CHOOSE i \in ink : \A j \in ink : i <= j
        b == CHOOSE i \in ink : \A j \in ink : i >= j
    IN SubSeq(q, a, b)

\* C20: the job queued by a successful submission carries the default
\* instruction when the query was empty or blank, and otherwise the query
\* without its leading and trailing whitespace; no queued query is blank.
C20_QueryNormalized ==
    /\ (http.op = "analyze" /\ http.code = 200)
       => /\ \E msg \in queue : msg.task_id = http.task_id
          /\ \A msg \in queue :
                msg.task_id = http.task_id
                => msg.query =
                     IF Blank(http.args.query)
                     THEN <<"Analyze this financial document comprehensively">>
                     ELSE Inner(http.args.query)
    /\ \A msg \in queue : ~Blank(msg.query)
    /\ \A w \in Workers : run[w].pc # "idle" => ~Blank(run[w].query)

\* Witness of C20: a padded query was queued without its padding.
C20_Witness ==
    /\ http.op = "analyze" /\ http.code = 200
    /\ http.args.query = <<" ", "q", " ", "q", "\n">>
    /\ \E msg \in queue : msg.query = <<"q", " ", "q">>

\* C21: a run that finds no record of its job when it sets the status to
\* running goes to the handler: it does not call the collaborator.
C21_MissingRecordAborts ==
    [][\A w \in DOMAIN run :
          (run[w].pc = "begin" /\ ~Found(db, run[w].task_id)
              /\ run'[w] # run[w])
          => run'[w].pc = "except"]_vars

\* C22: when a run of the task ends, by its return or by the re-raise, the
\* record of its job is not running.
C22_NeverLeftRunning ==
    \A w \in Workers :
        (run[w].pc \in {"return", "reraise"} /\ Found(db, run[w].task_id))
        => db[run[w].task_id].status # "running"

\* C23: a job whose run was ended by the hard time limit has a record that
\* is failed and carries an error message.
C23_TimeLimitMarksFailed ==
    \A i \in Rows :
        celery[i] = Meta("FAILURE", None, Str("TimeLimitExceeded(1800,)"))
        => /\ db[i].status = "failed"
           /\ db[i].error_message # None

\* C24: a job that is in the queue is eventually completed or failed.
C24_EventuallyTerminal ==
    \A i \in TaskIds :
        (\E msg \in queue : msg.task_id = i)
        ~> (Found(db, i) /\ db[i].status \in Terminal)

\* C25: a record that is completed or failed keeps its status, result,
\* error message and completion time for as long as it exists.
C25_TerminalIsFrozen ==
    [][\A i \in DOMAIN db \cap DOMAIN db' :
          db[i].status \in Terminal
          => /\ db'[i].status = db[i].status
             /\ db'[i].result_json = db[i].result_json
             /\ db'[i].error_message = db[i].error_message
             /\ db'[i].completed_at = db[i].completed_at]_vars

\* C26: whatever runs of the task wrote it, a record that is running has no
\* result, no error message and no completion time, and a record that is
\* completed has a result and no error message.
C26_RaceConsistent ==
    \A i \in Rows :
        /\ db[i].status = "running"
           => /\ db[i].result_json = None
              /\ db[i].error_message = None
              /\ db[i].completed_at = NullTime
        /\ db[i].status = "completed"
           => /\ db[i].error_message = None
              /\ db[i].completed_at # NullTime

\* C27: when the state of a task becomes FAILURE, a run of that task has
\* called the failed-status update of its record.
C27_UpdateBeforeSignal ==
    [][\A i \in TaskIds :
          (celery[i].state # "FAILURE" /\ celery'[i].state = "FAILURE")
          => \E w \in Workers : run[w].task_id = i /\ run[w].attempted]_vars

\* C28: a run that ends leaves no session open, whichever way it ends, and
\* an exception of close changes nothing of what the worker records: SUCCESS
\* with the returned value after a return, FAILURE with the exception that
\* was re-raised otherwise.
C28_SessionClosed ==
    [][\A w \in Workers :
          (run[w].pc \in {"return", "reraise"} /\ run'[w].pc = "idle")
          => /\ run'[w].session # "open"
             /\ run[w].session = "open"
                => run'[w].session \in {"closed", "close_failed"}
             /\ celery'[run[w].task_id] =
                  IF run[w].pc = "return"
                  THEN Meta("SUCCESS",
                            TaskReturn(run[w].task_id, run[w].result_json), None)
                  ELSE Meta("FAILURE", None, run[w].exc)]_vars

\* Witness of C28: a run returned, close raised, and the task is SUCCESS.
C28_Witness ==
    \E w \in Workers, i \in TaskIds :
        /\ run[w].pc = "idle" /\ run[w].session = "close_failed"
        /\ celery[i].state = "SUCCESS"

\* C29: the exception the handler caught is the one that is signalled and
\* re-raised: the failed-status update leaves it as it is whether or not the
\* update raises, update_state reports it, and the run ends with it whether
\* or not close raises.
C29_OriginalExceptionKept ==
    [][\A w \in Workers :
          /\ (run[w].pc = "except" /\ run'[w] # run[w])
             => run'[w].pc = "signal" /\ run'[w].exc = run[w].exc
          /\ (run[w].pc = "signal" /\ run'[w] # run[w])
             => /\ run'[w].pc = "reraise" /\ run'[w].exc = run[w].exc
                /\ celery'[run[w].task_id] = Meta("FAILURE", None, run[w].exc)
          /\ (run[w].pc = "reraise" /\ run'[w] # run[w])
             => celery'[run[w].task_id] = Meta("FAILURE", None, run[w].exc)]_vars

\* Witness of C29: the run raised "database is locked"; the failed-status
\* update did not commit (the record is still running) and close raised;
\* the task is FAILURE with "database is locked".
C29_Witness ==
    \E w \in Workers, i \in Rows :
        /\ run[w].pc = "idle" /\ run[w].session = "close_failed"
        /\ db[i].status = "running"
        /\ celery[i] = Meta("FAILURE", None, Str("database is locked"))

\* C30: text of the collaborator that json.loads rejects is stored as
\* {"raw_analysis": text} on a record that is completed.
C30_RawTextWrapped ==
    \A w \in Workers :
        (run[w].pc = "return" /\ ~json_loads(run[w].analysis_result.toks).ok)
        => LET wrapped == Dict(<<Pair("raw_analysis",
                                     Str(Text(run[w].analysis_result.toks)))>>)
           IN /\ run[w].result_json = wrapped
              /\ Found(db, run[w].task_id)
                 => /\ db[run[w].task_id].status = "completed"
                    /\ db[run[w].task_id].result_json = wrapped
                    /\ db[run[w].task_id].error_message = None

\* Witness of C30: "Revenue grew." came back and is stored wrapped.
C30_Witness ==
    \E w \in Workers :
        /\ run[w].pc = "return"
        /\ run[w].analysis_result = PyStr(<<W("Revenue grew.")>>)
        /\ Found(db, run[w].task_id)
        /\ db[run[w].task_id].status = "completed"
        /\ db[run[w].task_id].result_json =
              Dict(<<Pair("raw_analysis", Str("Revenue grew."))>>)

\* C31: completed_at of a record is written in the step that takes the
\* record from pending or running to completed or failed, and in no other
\* step.
C31_CompletedAtWrittenOnce ==
    [][\A i \in DOMAIN db \cap DOMAIN db' :
          (db'[i].completed_at # db[i].completed_at)
          <=> (db[i].status \notin Terminal /\ db'[i].status \in Terminal)]_vars

\* C32: a record that is completed or failed now is gone after any sweep
\* that runs more than its threshold later (the record became terminal no
\* later than now).
C32_TerminalSwept ==
    \A i \in Rows :
        db[i].status \in Terminal
        => \A d \in Days : ~Found(delete_old_analyses(db, d, now + d + 1), i)

\* C36: a submission in which get_or_create_user raised is answered with
\* the success response, its record exists with no owner, and its job is
\* queued with no owner.
C36_OwnerFailureTolerated ==
    (http.op = "analyze" /\ http.code # 400
        /\ http.args.fault \in {"user", "usercommit"}
        /\ Truthy(http.args.email))
    => /\ http.code = 200
       /\ http.body = SubmitOk(http.task_id).body
       /\ Found(db, http.task_id)
       /\ db[http.task_id].user_id = NullId
       /\ \E msg \in queue :
             msg.task_id = http.task_id /\ msg.user_id = NullId

\* C33: a step leaves id, filename, user_id and created_at of every record
\* it keeps as they were, a record has the id it is stored under, and a step
\* that removes a record is a sweep.
C33_IdentityImmutable ==
    [][/\ \A i \in DOMAIN db \cap DOMAIN db' :
             /\ db'[i].id = db[i].id
             /\ db'[i].filename = db[i].filename
             /\ db'[i].user_id = db[i].user_id
             /\ db'[i].created_at = db[i].created_at
       /\ \A i \in DOMAIN db' : db'[i].id = i
       /\ DOMAIN db \ DOMAIN db' # {} => http'.op = "sweep"]_vars

\* Witness of C33: a record created at time 0 with an owner, updated by a
\* run that ended at time 1.
C33_Witness ==
    \E i \in Rows :
        /\ db[i].created_at = 0 /\ db[i].completed_at = 1
        /\ db[i].user_id # NullId /\ db[i].status = "failed"
        /\ db[i].filename = <<"R", ".", "P", "D", "F">>

\* C34: for a task no run of which is under way, SUCCESS goes with a record
\* that is completed and holds the result the task returned, and FAILURE
\* with a record that is failed (for as long as the record exists).
C34_ChannelsAgree ==
    \A i \in Rows :
        (\A w \in Workers : run[w].task_id # i)
        => /\ celery[i].state = "SUCCESS"
              => /\ db[i].status = "completed"
                 /\ celery[i].result = TaskReturn(i, db[i].result_json)
           /\ celery[i].state = "FAILURE" => db[i].status = "failed"

\* A record whose job was never queued, in a state given by its table,
\* result backend, queue and runs: the task of its id is unknown to Celery,
\* no message names it and no run has it.
Orphan(tbl, backend, messages, runs, i) ==
    /\ Found(tbl, i)
    /\ backend[i].state = "PENDING"
    /\ \A msg \in messages : msg.task_id # i
    /\ \A w \in DOMAIN runs : runs[w].task_id # i

\* C35: a submission in which apply_async raised is answered 500, has
\* created its record, pending, has queued nothing, and has removed the file
\* unless os.remove failed; and a record whose job was never queued stays as
\* it is in every later step: no run takes it and no sweep deletes it.
C35_EnqueueFailureLeavesOrphan ==
    [][/\ (used' # used /\ http'.code # 400 /\ http'.args.fault = "enqueue")
          => /\ http'.code = 500
             /\ ~Found(db, http'.task_id)
             /\ Found(db', http'.task_id)
             /\ db'[http'.task_id].status = "pending"
             /\ db'[http'.task_id].completed_at = NullTime
             /\ queue' = queue
             /\ http'.args.cleanup = "removed" => http'.task_id \notin files'
             /\ Orphan(db', celery', queue', run', http'.task_id)
       /\ \A i \in TaskIds :
             Orphan(db, celery, queue, run, i)
             => (Orphan(db', celery', queue', run', i) /\ db'[i] = db[i])]_vars

\* Witness of C35: apply_async raised; the answer is 500, the record is
\* there, pending, nothing is queued and the file is gone.
C35_Witness ==
    /\ http.op = "analyze" /\ http.code = 500
    /\ http.args.fault = "enqueue"
    /\ Orphan(db, celery, queue, run, http.task_id)
    /\ db[http.task_id].status = "pending"
    /\ queue = {} /\ files = {}

\* C37: update_analysis_status on a record that exists sets the status,
\* sets error_message when the message passed is not empty, sets
\* completed_at when the new status is completed, and leaves every other
\* field of the record and every other record as it was.
C37_StatusUpdateFrame ==
    \A i \in Rows, st \in {"pending", "running", "completed", "failed"},
       m \in {None, Str(""), Str("LLM request timed out")} :
        LET t == update_analysis_status(db, i, st, m, now) IN
        /\ DOMAIN t = Rows
        /\ \A j \in Rows \ {i} : t[j] = db[j]
        /\ t[i].status = st
        /\ t[i].error_message =
             IF m \in {None, Str("")} THEN db[i].error_message ELSE m
        /\ t[i].completed_at =
             IF st = "completed" THEN now ELSE db[i].completed_at
        /\ t[i].result_json = db[i].result_json
        /\ t[i].id = db[i].id /\ t[i].filename = db[i].filename
        /\ t[i].user_id = db[i].user_id /\ t[i].created_at = db[i].created_at

\* Witness of C37: the handler's status update came after the result was
\* stored: the record is failed and still holds the result and the time.
C37_Witness ==
    \E i \in Rows :
        /\ db[i].status = "failed" /\ db[i].error_message = Str("database is locked")
        /\ db[i].result_json # None /\ db[i].completed_at # NullTime

\* C38: the two updates leave the table as it is for an identifier that has
\* no record; a step of a run neither adds nor removes a record; a step that
\* adds a record is a submission and adds the record of its task id; a step
\* that removes a record is a sweep.
C38_MissingRecordUntouched ==
    [][/\ \A i \in TaskIds \ DOMAIN db :
             /\ update_analysis_status(db, i, "running", None, now) = db
             /\ update_analysis_status(db, i, "failed",
                                       Str("database is locked"), now) = db
             /\ update_analysis_result(db, i, "completed",
                    Dict(<<Pair("recommendation", Str("HOLD"))>>), now) = db
       /\ \A w \in DOMAIN run : run'[w] # run[w] => DOMAIN db' = DOMAIN db
       /\ DOMAIN db' \ DOMAIN db # {}
          => /\ http'.op = "analyze"
             /\ DOMAIN db' \ DOMAIN db = {http'.task_id}
       /\ DOMAIN db \ DOMAIN db' # {} => http'.op = "sweep"]_vars

\* Witness of C38: a run of a job whose record was swept has made its
\* updates and is about to return; the table is empty.
C38_Witness ==
    \E w \in DOMAIN run :
        /\ run[w].pc = "return" /\ ~Found(db, run[w].task_id)
        /\ db = <<>>

====
